---- MODULE Spec2Model ----
(***************************************************************************)
(* A model of connections.py: the search for a winning strategy in a game  *)
(* of "Connections".  Slots are the integers 0..n-1 (Slot.create_n), a     *)
(* selection is a set of slots, a Move is a record [selection, result], a  *)
(* State is the pair (params, moves), a Solution is the set of its groups. *)
(*                                                                         *)
(* Python leaves the iteration order of a set unspecified.  CPython keeps  *)
(* a set in a hash table of 8 entries or more and a slot, an int, hashes   *)
(* to itself: a frozenset of slots below 8 is iterated in ascending order, *)
(* however it was built.  The order of a frozenset with a slot from 8 on,  *)
(* the order of list(basis), a set of frozensets, and the order in which   *)
(* the library yields the solutions follow from how the set was built,     *)
(* from hashing and from code outside the repository: there the model      *)
(* allows every order.  So what depends on an order (iter, list,           *)
(* _get_possible_selections, get_possible_selections,                      *)
(* get_possible_results, has_winning_strat) is the set of the values the   *)
(* call can produce.                                                       *)
(***************************************************************************)
EXTENDS Integers, Sequences, FiniteSets

VARIABLES
    params,     \* GameParams: [slots, GROUP_SIZE]
    moves,      \* State.moves: the history, a sequence of Moves
    n_tries,    \* has_winning_strat's n_tries for the call on (params, moves)
    budget,     \* n_tries of the outermost call
    verdict,    \* what has_winning_strat returned for (params, moves, n_tries)
    sets,       \* the argument `sets` of a direct call of one of State's helpers
    n_items,    \* the argument `n_items` of State._get_possible_selections
    selects,    \* the selections the last call under study yielded, in order
                \* (one of the orders the call can yield them in)
    basis,      \* the classes the last call of State._smallest_basis returned
    pc          \* "start" until the call under study has been made, then "done"

vars ==
    <<params, moves, n_tries, budget, verdict, sets, n_items, selects, basis, pc>>

(***************************************************************************)
(* Bounds of the model.                                                    *)
(***************************************************************************)
\* largest error budget given to the outermost call of has_winning_strat
MaxTries == 3
\* largest error budget when the reduced search is compared with the full one
MaxTriesFull == 3
\* longest history built from arbitrary moves
MaxMoves == 2
\* number of slots the classes given to _get_possible_selections are drawn from
HelperSlots == 6
\* number of slots the selections given to _smallest_basis are drawn from
BasisSlots == 4
\* largest number of selections, besides the full slot set, given to
\* _smallest_basis
MaxSelections == 3
\* longest list of classes given to the helper
MaxClasses == 3
\* largest target size given to the helper
MaxItems == 4

NotCalled == "none"

(***************************************************************************)
(* class Result                                                            *)
(***************************************************************************)
OFF_BY_MORE == "OFF_BY_MORE"
OFF_BY_ONE == "OFF_BY_ONE"
CORRECT == "CORRECT"
Result == {OFF_BY_MORE, OFF_BY_ONE, CORRECT}

\* Move(selection, result)
Move(selection, result) == [selection |-> selection, result |-> result]

\* Slot.create_n(n): the slots 0 .. n-1
create_n(n) == 0 .. (n - 1)

\* GameParams(slots, GROUP_SIZE)
GameParams(slots, group_size) == [slots |-> slots, GROUP_SIZE |-> group_size]

\* GameParams.GROUP_SIZE's default, which the command line uses too
DEFAULT_GROUP_SIZE == 4

\* the games of the model
Games ==
    { GameParams(create_n(4), DEFAULT_GROUP_SIZE),
      GameParams(create_n(8), DEFAULT_GROUP_SIZE),
      GameParams(create_n(4), 2), GameParams(create_n(6), 2),
      GameParams(create_n(6), 3) }

\* the games small enough to try every selection at every move of the search
SmallGames == { p \in Games : Cardinality(p.slots) <= 6 }

\* the games on which states with arbitrary histories are built
AnyGames ==
    { GameParams(create_n(4), DEFAULT_GROUP_SIZE),
      GameParams(create_n(4), 2) }

(***************************************************************************)
(* Helpers standing for Python built-ins.                                  *)
(***************************************************************************)
Range(s) == { s[i] : i \in 1 .. Len(s) }

Min2(a, b) == IF a <= b THEN a ELSE b

MinOf(S) == CHOOSE x \in S : \A y \in S : x <= y

\* the subsets of S with exactly k elements
RECURSIVE KSubsets(_, _)
KSubsets(S, k) ==
    IF k = 0 THEN {{}}
    ELSE IF Cardinality(S) < k THEN {}
    ELSE LET x == MinOf(S)
         IN  { {x} \cup c : c \in KSubsets(S \ {x}, k - 1) }
                 \cup KSubsets(S \ {x}, k)

\* the smallest hash table of a CPython set: slots below it lie in the
\* table in ascending order
PySet_MINSIZE == 8

\* the slots of s in ascending order
RECURSIVE ascending(_)
ascending(s) ==
    IF s = {} THEN <<>>
    ELSE LET x == MinOf(s) IN <<x>> \o ascending(s \ {x})

\* list(s) on a set s whose iteration order is not fixed: every sequence
\* that holds each member of s once
RECURSIVE list(_)
list(S) ==
    IF S = {} THEN { <<>> }
    ELSE UNION { { <<c>> \o rest : rest \in list(S \ {c}) } : c \in S }

\* iter(s) on a frozenset of slots: the orders it can be iterated in.
\* Ascending when every slot is below PySet_MINSIZE; else the order follows
\* from the size of the table and from the order in which the slots were
\* put in, and any order can come
iter(s) ==
    IF \A slot \in s : slot < PySet_MINSIZE THEN { ascending(s) }
    ELSE list(s)

\* frozenset(islice(curent_set, i)) when curent_set is iterated in the order
\* `order`: its first i elements (all of it when i >= len(curent_set))
islice(order, i) == { order[j] : j \in 1 .. Min2(i, Len(order)) }

\* the orders in which the classes of the list ss can be iterated, one order
\* for each class: a class is iterated in the same order each time
RECURSIVE iters(_)
iters(ss) ==
    IF ss = <<>> THEN { <<>> }
    ELSE { <<order>> \o rest : order \in iter(Head(ss)), rest \in iters(Tail(ss)) }

\* one member of list(S) for a set S of disjoint non-empty frozensets: the
\* classes by smallest member
RECURSIVE by_smallest_member(_)
by_smallest_member(S) ==
    IF S = {} THEN <<>>
    ELSE LET c == CHOOSE c \in S : \A d \in S : MinOf(c) <= MinOf(d)
         IN  <<c>> \o by_smallest_member(S \ {c})

(***************************************************************************)
(* labeled_balls_in_unlabeled_boxes(balls, box_sizes) of the library        *)
(* combinatorics that possible_solutions calls, for box sizes that sum to  *)
(* the number of balls: every way to split the balls 0..balls-1 into       *)
(* unlabeled boxes of these sizes, each way once.  The group that holds    *)
(* the first remaining ball is chosen first.                               *)
(***************************************************************************)
RECURSIVE balls_in_boxes(_, _)
balls_in_boxes(S, box_sizes) ==
    IF box_sizes = <<>> THEN (IF S = {} THEN {{}} ELSE {})
    ELSE IF Cardinality(S) < Head(box_sizes) THEN {}
    ELSE LET x == MinOf(S)
         IN  UNION { { {{x} \cup c} \cup p :
                         p \in balls_in_boxes(S \ ({x} \cup c), Tail(box_sizes)) } :
                     c \in KSubsets(S \ {x}, Head(box_sizes) - 1) }

labeled_balls_in_unlabeled_boxes(balls, box_sizes) ==
    balls_in_boxes(0 .. (balls - 1), box_sizes)

(***************************************************************************)
(* class Solution                                                          *)
(***************************************************************************)
\* Solution.result_for_move(selection), for the solution with these groups
result_for_move(groupings, p, selection) ==
    LET group_counts == { Cardinality(group \cap selection) : group \in groupings }
    IN  IF p.GROUP_SIZE \in group_counts THEN CORRECT
        ELSE IF (p.GROUP_SIZE - 1) \in group_counts THEN OFF_BY_ONE
        ELSE OFF_BY_MORE

(***************************************************************************)
(* class State                                                             *)
(***************************************************************************)
\* _smallest_basis with slots grouped by how many of the sets they are in
smallest_basis_by_count(ss) ==
    LET items == UNION ss
        participates_in(item) == { subset \in ss : item \in subset }
    IN  { { slot \in items :
              Cardinality(participates_in(slot)) = Cardinality(participates_in(item)) } :
          item \in items }

\* State._smallest_basis(sets)
_smallest_basis(ss) ==
    LET items == UNION ss
        participates_in(item) == { subset \in ss : item \in subset }
    IN  { { slot \in items : participates_in(slot) = participates_in(item) } :
          item \in items }

\* the generator of State._get_possible_selections when the classes are
\* iterated in the orders `orders`: the selections in the order they are
\* yielded.  for_i is the loop over i from i upwards.
RECURSIVE yield_selections(_, _), for_i(_, _, _), for_i_from_one(_, _, _)

\* for_i with range(1, ...) in place of range(...): never takes nothing
for_i_from_one(orders, n, i) ==
    IF i > Min2(n, Len(Head(orders))) THEN <<>>
    ELSE IF i = 0 THEN for_i_from_one(orders, n, 1)
    ELSE LET selection == islice(Head(orders), i)
             further == yield_selections(Tail(orders), n - i)
         IN  [ j \in 1 .. Len(further) |-> selection \cup further[j] ]
                 \o for_i_from_one(orders, n, i + 1)

for_i(orders, n, i) ==
    IF i > Min2(n, Len(Head(orders))) THEN <<>>
    ELSE LET selection == islice(Head(orders), i)
             further == yield_selections(Tail(orders), n - i)
         IN  [ j \in 1 .. Len(further) |-> selection \cup further[j] ]
                 \o for_i(orders, n, i + 1)

yield_selections(orders, n) ==
    IF n = 0 THEN << {} >>
    ELSE IF Len(orders) = 0 THEN <<>>
    ELSE for_i(orders, n, 0)

\* State._get_possible_selections(sets, n_items): the sequences of
\* selections it can yield, one for each way the classes can be iterated
_get_possible_selections(ss, n) ==
    { yield_selections(orders, n) : orders \in iters(ss) }

\* {m.selection for m in self.moves} | {frozenset(self.params.slots)}
prev_selections(p, ms) ==
    { ms[i].selection : i \in 1 .. Len(ms) } \cup { p.slots }

\* get_possible_selections without its filter
get_possible_selections_unfiltered(p, ms) ==
    UNION { _get_possible_selections(basis_list, p.GROUP_SIZE) :
              basis_list \in list(_smallest_basis(prev_selections(p, ms))) }

\* the generators get_possible_selections can return when list(basis) is
\* basis_list: the selections in the order emitted
filtered_selections(p, ms, basis_list) ==
    LET prev == prev_selections(p, ms)
        NotPlayed(selection) == selection \notin prev
    IN  { SelectSeq(possible_selections, NotPlayed) :
            possible_selections \in
                _get_possible_selections(basis_list, p.GROUP_SIZE) }

\* State.get_possible_selections(): the sequences of selections it can emit,
\* for every order of list(basis)
get_possible_selections(p, ms) ==
    UNION { filtered_selections(p, ms, basis_list) :
              basis_list \in list(_smallest_basis(prev_selections(p, ms))) }

\* the sets of selections get_possible_selections can emit.  The generator
\* takes the first i slots of each class for every split of GROUP_SIZE over
\* the classes, so the order of the classes in list(basis) does not change
\* the set: one order stands for all.  The order in which a class is
\* iterated does
emitted_selections(p, ms) ==
    { Range(selections) :
        selections \in filtered_selections(p, ms,
            by_smallest_member(_smallest_basis(prev_selections(p, ms)))) }

\* every combi that possible_solutions iterates over, for each game: the
\* value of labeled_balls_in_unlabeled_boxes(n_slots, group_sizes), which
\* depends on the game only, computed once
all_combis ==
    [ p \in Games |->
        LET n_slots == Cardinality(p.slots)
            n_groups == n_slots \div p.GROUP_SIZE
            group_sizes == [ i \in 1 .. n_groups |-> p.GROUP_SIZE ]
        IN  labeled_balls_in_unlabeled_boxes(n_slots, group_sizes) ]

\* possible_solutions checking the last move only
possible_solutions_last_move(p, ms) ==
    { combi \in all_combis[p] :
        \A i \in { Len(ms) } \ { 0 } :
            result_for_move(combi, p, ms[i].selection) = ms[i].result }

\* State.possible_solutions(): the solutions no prior move rules out
possible_solutions(p, ms) ==
    { combi \in all_combis[p] :
        \A i \in 1 .. Len(ms) :
            result_for_move(combi, p, ms[i].selection) = ms[i].result }

\* the keys of result_counts in get_possible_results, for these possible
\* solutions: the results some solution gives the selection (each has a
\* count > 0)
result_counts(solutions, p, selection) ==
    { result_for_move(solution, p, selection) : solution \in solutions }

\* State.get_possible_results(selection): the lists it can return.  The keys
\* come in the order in which the solutions first give them, and the library
\* may yield the solutions in any order, so every order of the keys can come
get_possible_results(p, ms, selection) ==
    list(result_counts(possible_solutions(p, ms), p, selection))

(***************************************************************************)
(* has_winning_strat                                                       *)
(***************************************************************************)
\* sum(s.result == Result.CORRECT for s in state.moves)
n_correct(ms) == Cardinality({ i \in 1 .. Len(ms) : ms[i].result = CORRECT })

\* the first return: every group has been found
all_groups_found(p, ms) ==
    n_correct(ms) = Cardinality(p.slots) \div p.GROUP_SIZE

\* early_return that gives up only below 0 tries
early_return_below_zero(p, ms, n) ==
    IF all_groups_found(p, ms) THEN <<TRUE>>
    ELSE IF n < 0 THEN <<FALSE>>
    ELSE <<>>

\* what has_winning_strat returns before its loops: <<True>> when every group
\* is found, else <<False>> when n_tries is 0, else nothing
early_return(p, ms, n) ==
    IF all_groups_found(p, ms) THEN <<TRUE>>
    ELSE IF n = 0 THEN <<FALSE>>
    ELSE <<>>

\* next_tries charging a try for every move
next_tries_every_move(result, n) == n - 1

\* the n_tries passed to the recursive call
next_tries(result, n) == IF result = CORRECT THEN n ELSE n - 1

\* the loop over the results of one selection, for the results in the order
\* of the list `results`: the ways it can end.  has_winning[result] holds
\* the values the recursive call for the result can return.
RECURSIVE for_result(_, _), for_result_no_break(_, _)

\* for_result without the break: a losing result does not end the loop, so
\* the loop always reaches its else
for_result_no_break(has_winning, results) ==
    IF results = <<>> THEN { "else" }
    ELSE for_result_no_break(has_winning, Tail(results))

for_result(has_winning, results) ==
    IF results = <<>> THEN { "else" }    \* the loop's else: return True
    ELSE (IF FALSE \in has_winning[Head(results)]
          THEN { "break" }               \* if not has_winning: break
          ELSE {})
         \cup (IF TRUE \in has_winning[Head(results)]
               THEN for_result(has_winning, Tail(results))
               ELSE {})

\* the loop over the selections: the values it can return, whatever the
\* order get_possible_selections emits them in (a basis of c classes has c!
\* orders, so they are not run one by one).  ends[selection] holds the ways
\* the inner loop for the selection can end.
\*   True:  the inner loop of some selection reaches its else, the inner
\*          loops before it having broken.  In every order the first
\*          selection whose inner loop can reach its else is such a one: the
\*          inner loops before it can only break.
\*   False: the inner loop of every selection breaks (also when there is no
\*          selection).
for_selection(ends) ==
    { returned \in BOOLEAN :
        \/ /\ returned = TRUE
           /\ \E selection \in DOMAIN ends : "else" \in ends[selection]
        \/ /\ returned = FALSE
           /\ \A selection \in DOMAIN ends : "break" \in ends[selection] }

\* has_winning_strat(State(p, ms), n): the values the call can return;
\* loops_over is what its loops can return when get_possible_selections
\* emits `selections`.  has_winning[selection][result] is what the recursive
\* call for the move can return; the possible solutions, which every call of
\* get_possible_results on the state computes anew, are computed once.
RECURSIVE has_winning_strat(_, _, _), loops_over(_, _, _, _)
loops_over(p, ms, n, selections) ==
    LET solutions == possible_solutions(p, ms)
        has_winning ==
            [ selection \in selections |->
                [ result \in result_counts(solutions, p, selection) |->
                    has_winning_strat(p,
                        Append(ms, Move(selection, result)),
                        next_tries(result, n)) ] ]
        ends ==
            [ selection \in DOMAIN has_winning |->
                UNION { for_result(has_winning[selection], results) :
                          results \in list(result_counts(solutions, p, selection)) } ]
    IN  for_selection(ends)

has_winning_strat(p, ms, n) ==
    IF early_return(p, ms, n) # <<>> THEN { early_return(p, ms, n)[1] }
    ELSE UNION { loops_over(p, ms, n, selections) :
                   selections \in emitted_selections(p, ms) }

(***************************************************************************)
(* The search: the outermost call and the recursive calls below it.        *)
(***************************************************************************)
\* start_state = State(params, moves=[]);
\* has_winning_strat(start_state, n_tries=budget)
InitSearch(games, max_tries) ==
    /\ params \in games
    /\ budget \in 0 .. max_tries
    /\ moves = <<>>
    /\ n_tries = budget
    /\ verdict \in has_winning_strat(params, moves, n_tries)
    /\ sets = <<>>
    /\ n_items = 0
    /\ selects = <<>>
    /\ basis = {}
    /\ pc = "done"

Init == InitSearch(Games, MaxTries)

\* one recursive call of has_winning_strat: from the call on (moves, n_tries)
\* to the call on the history extended by one of the moves its loops try.
\* The loops may stop early (break, return True), so the code makes some of
\* these calls, never any other.
Recurse ==
    /\ early_return(params, moves, n_tries) = <<>>
    /\ \E selection \in UNION emitted_selections(params, moves) :
         \E result \in UNION { Range(results) :
                     results \in get_possible_results(params, moves, selection) } :
            /\ moves' = Append(moves, Move(selection, result))
            /\ n_tries' = next_tries(result, n_tries)
            /\ verdict' \in has_winning_strat(params, moves', n_tries')
    /\ UNCHANGED <<params, budget, sets, n_items, selects, basis, pc>>

Next == Recurse

Spec == Init /\ [][Next]_vars

\* the same search on the small games, with the smaller budget
InitSmall == InitSearch(SmallGames, MaxTriesFull)

SpecSmall == InitSmall /\ [][Next]_vars

(***************************************************************************)
(* States built as the tests build them: State(params, moves) with any     *)
(* moves, and get_possible_selections() called on it.                      *)
(***************************************************************************)
\* moves = []; state = State(params, moves)
InitAny ==
    /\ params \in AnyGames
    /\ moves = <<>>
    /\ n_tries = 0
    /\ budget = 0
    /\ verdict = NotCalled
    /\ sets = <<>>
    /\ n_items = 0
    /\ selects = <<>>
    /\ basis = {}
    /\ pc = "start"

\* moves += [Move(selection, result)]; state = State(params, moves): a new
\* state, on which get_possible_selections has not been called
AnyMove ==
    /\ Len(moves) < MaxMoves
    /\ \E selection \in KSubsets(params.slots, params.GROUP_SIZE) :
         \E result \in Result :
            moves' = Append(moves, Move(selection, result))
    /\ selects' = <<>>
    /\ basis' = {}
    /\ pc' = "start"
    /\ UNCHANGED <<params, n_tries, budget, verdict, sets, n_items>>

\* selects = list(state.get_possible_selections()), in one of the orders the
\* call can emit them; basis is the basis the call computes
ListSelections ==
    /\ pc = "start"
    /\ selects' \in get_possible_selections(params, moves)
    /\ basis' = _smallest_basis(prev_selections(params, moves))
    /\ pc' = "done"
    /\ UNCHANGED <<params, moves, n_tries, budget, verdict, sets, n_items>>

NextAny == AnyMove \/ ListSelections

SpecAny == InitAny /\ [][NextAny]_vars

(***************************************************************************)
(* Direct calls of State._get_possible_selections(sets, n_items) on lists  *)
(* of pairwise disjoint classes: of the slots of a small game, and of four *)
(* slots of a game with slots from PySet_MINSIZE on.                       *)
(***************************************************************************)
\* the slots the classes are drawn from
HelperClassSlots(p) ==
    IF Cardinality(p.slots) <= PySet_MINSIZE THEN p.slots
    ELSE { 0, 1, PySet_MINSIZE, PySet_MINSIZE + 1 }

\* the lists of k pairwise disjoint classes over the slots: class j holds
\* the slots that f sends to j
DisjointLists(slots, k) ==
    { [ j \in 1 .. k |-> { s \in slots : f[s] = j } ] : f \in [slots -> 0 .. k] }

InitSel ==
    /\ params \in { GameParams(create_n(HelperSlots), DEFAULT_GROUP_SIZE),
                     GameParams(create_n(PySet_MINSIZE + 2), DEFAULT_GROUP_SIZE) }
    /\ moves = <<>>
    /\ n_tries = 0
    /\ budget = 0
    /\ verdict = NotCalled
    /\ \E k \in 0 .. MaxClasses :
          sets \in DisjointLists(HelperClassSlots(params), k)
    /\ n_items \in 0 .. MaxItems
    /\ selects = <<>>
    /\ basis = {}
    /\ pc = "start"

\* selects = list(s0._get_possible_selections(sets, n_items)), for one of
\* the ways the classes can be iterated
CallSelections ==
    /\ pc = "start"
    /\ selects' \in _get_possible_selections(sets, n_items)
    /\ pc' = "done"
    /\ UNCHANGED <<params, moves, n_tries, budget, verdict, sets, n_items, basis>>

NextSel == CallSelections

SpecSel == InitSel /\ [][NextSel]_vars

(***************************************************************************)
(* Direct calls of State._smallest_basis(sets) on sets of selections that  *)
(* include the full slot set.                                              *)
(***************************************************************************)
InitBasis ==
    /\ params = GameParams(create_n(BasisSlots), DEFAULT_GROUP_SIZE)
    /\ moves = <<>>
    /\ n_tries = 0
    /\ budget = 0
    /\ verdict = NotCalled
    /\ sets = { params.slots }
    /\ n_items = 0
    /\ selects = <<>>
    /\ basis = {}
    /\ pc = "start"

\* one more selection, any set of slots, is put into `sets`
AddSelection ==
    /\ pc = "start"
    /\ Cardinality(sets) <= MaxSelections
    /\ \E selection \in SUBSET params.slots : sets' = sets \cup { selection }
    /\ UNCHANGED <<params, moves, n_tries, budget, verdict, n_items, selects, basis, pc>>

\* basis = state._smallest_basis(sets)
CallBasis ==
    /\ pc = "start"
    /\ basis' = _smallest_basis(sets)
    /\ pc' = "done"
    /\ UNCHANGED <<params, moves, n_tries, budget, verdict, sets, n_items, selects>>

NextBasis == AddSelection \/ CallBasis

SpecBasis == InitBasis /\ [][NextBasis]_vars

(***************************************************************************)
(* Definitions the properties are stated with.                             *)
(***************************************************************************)
n_groups_of(p) == Cardinality(p.slots) \div p.GROUP_SIZE

n_not_correct(ms) == Cardinality({ i \in 1 .. Len(ms) : ms[i].result # CORRECT })

played(ms) == { ms[i].selection : i \in 1 .. Len(ms) }

\* the value of the game: won when every group is found, lost when no try
\* is left, else won iff some emitted selection wins against every result
\* that is still possible
RECURSIVE game_value(_, _, _)
game_value(p, ms, n) ==
    IF n_correct(ms) = n_groups_of(p) THEN TRUE
    ELSE IF n = 0 THEN FALSE
    ELSE \E selection \in UNION emitted_selections(p, ms) :
            \A result \in result_counts(possible_solutions(p, ms), p, selection) :
                game_value(p, Append(ms, Move(selection, result)),
                           IF result = CORRECT THEN n ELSE n - 1)

\* the same search over every GROUP_SIZE-element set of slots not yet played
RECURSIVE full_search(_, _, _)
full_search(p, ms, n) ==
    IF n_correct(ms) = n_groups_of(p) THEN TRUE
    ELSE IF n = 0 THEN FALSE
    ELSE \E selection \in KSubsets(p.slots, p.GROUP_SIZE) \ played(ms) :
            \A result \in result_counts(possible_solutions(p, ms), p, selection) :
                full_search(p, Append(ms, Move(selection, result)),
                            IF result = CORRECT THEN n ELSE n - 1)

Sum(f) ==
    LET RECURSIVE upto(_)
        upto(j) == IF j = 0 THEN 0 ELSE f[j] + upto(j - 1)
    IN  upto(Len(f))

\* the ways to distribute k picks over the classes in the list ss
Distributions(ss, k) ==
    { v \in [1 .. Len(ss) -> 0 .. k] :
        /\ \A j \in 1 .. Len(ss) : v[j] <= Cardinality(ss[j])
        /\ Sum(v) = k }

\* how many members of each class a selection holds
Profile(ss, selection) ==
    [ j \in 1 .. Len(ss) |-> Cardinality(selection \cap ss[j]) ]

one_group_game == Cardinality(params.slots) = 4 /\ params.GROUP_SIZE = 4

two_group_game == Cardinality(params.slots) = 8 /\ params.GROUP_SIZE = 4

(***************************************************************************)
(* Properties.                                                             *)
(***************************************************************************)

\* C1: what has_winning_strat returns for a state and a number of tries is
\* the value of the game: true when every group is found, else false when no
\* try is left, else true iff some emitted selection leads, for every result
\* still possible, to a true value with the tries left after that result.
C1_GameValue == verdict = game_value(params, moves, n_tries)

\* a call that returned True from its loops, below a CORRECT move
C1_Witness ==
    /\ verdict = TRUE
    /\ early_return(params, moves, n_tries) = <<>>
    /\ n_correct(moves) >= 1
    /\ n_not_correct(moves) >= 1

\* C2: on the one-group game with an empty history and no try,
\* has_winning_strat returns True.
C2_OneGroupWins ==
    (one_group_game /\ moves = <<>> /\ n_tries = 0) => verdict = TRUE

\* C3 as stated: on 8 slots in groups of 4 with an empty history,
\* has_winning_strat returns False with no try and True with one or more.
C3_TrueFromOneTry ==
    (two_group_game /\ moves = <<>>) => (verdict = (n_tries >= 1))

\* C3, amended: on 8 slots in groups of 4 with an empty history,
\* has_winning_strat returns False with no try and still returns False with
\* 1, 2 or 3 tries.
C3_FalseUpToThreeTries ==
    (two_group_game /\ moves = <<>> /\ n_tries <= 3) => verdict = FALSE

\* the outermost call on 8 slots with 3 tries has returned False
C3_Witness ==
    two_group_game /\ moves = <<>> /\ n_tries = 3 /\ verdict = FALSE

\* C4: get_possible_selections() emits no selection that a move of the
\* history has made.
C4_NoReplay ==
    pc = "done" => \A i \in 1 .. Len(selects) : selects[i] \notin played(moves)

\* selections are emitted for a state with two different moves in its
\* history, both of them candidates that the filter removed
C4_Witness ==
    /\ pc = "done"
    /\ Len(moves) = 2
    /\ moves[1].selection # moves[2].selection
    /\ Len(selects) >= 1
    /\ \E possible_selections \in
             _get_possible_selections(by_smallest_member(basis), params.GROUP_SIZE) :
           played(moves) \subseteq Range(possible_selections)

\* C5: get_possible_selections() emits, for every way to distribute
\* GROUP_SIZE picks over the classes of the state, the selection that takes
\* so many members of each class, unless a move of the history made that
\* selection; it emits each once and nothing else.
C5_OnlyPlayedSkipped ==
    LET ss == by_smallest_member(basis)
        wanted(orders) ==
            { s \in KSubsets(params.slots, params.GROUP_SIZE) :
                /\ Profile(ss, s) \in Distributions(ss, params.GROUP_SIZE)
                /\ \A j \in 1 .. Len(ss) :
                      s \cap ss[j] = islice(orders[j], Cardinality(s \cap ss[j])) }
    IN  pc = "done" =>
            \E orders \in iters(ss) :
                /\ Range(selects) = wanted(orders) \ played(moves)
                /\ Len(selects) = Cardinality(Distributions(ss, params.GROUP_SIZE))
                                    - Cardinality(wanted(orders) \cap played(moves))

\* C6: on pairwise disjoint classes, _get_possible_selections yields one
\* selection for each way to distribute n_items picks over the classes, with
\* so many members of each class and nothing else in it, and yields nothing
\* besides: every selection has n_items slots and none comes twice.
C6_OnePerDistribution ==
    pc = "done" =>
        /\ \A i \in 1 .. Len(selects) :
              /\ selects[i] \subseteq UNION Range(sets)
              /\ Profile(sets, selects[i]) \in Distributions(sets, n_items)
              /\ Cardinality(selects[i]) = n_items
        /\ \A v \in Distributions(sets, n_items) :
              Cardinality({ i \in 1 .. Len(selects) : Profile(sets, selects[i]) = v }) = 1
        /\ \A i, j \in 1 .. Len(selects) : selects[i] = selects[j] => i = j

\* the call of the test: three classes of two slots and three picks, which
\* yields 3 * 2 + 1 selections
C6_Witness ==
    /\ pc = "done"
    /\ sets = << {0, 1}, {2, 3}, {4, 5} >>
    /\ n_items = 3
    /\ Len(selects) = 7

\* C7: for selections that include the full slot set, the classes that
\* _smallest_basis returns are pairwise disjoint, every slot is in exactly
\* one of them, and two slots are in the same class iff they are in the same
\* ones of the selections.
C7_BasisPartition ==
    pc = "done" =>
        /\ \A b0, b1 \in basis : b0 # b1 => b0 \cap b1 = {}
        /\ \A slot \in params.slots :
              Cardinality({ b \in basis : slot \in b }) = 1
        /\ UNION basis = params.slots
        /\ \A s, t \in params.slots :
              (\E b \in basis : s \in b /\ t \in b)
                  <=> (\A selection \in sets : s \in selection <=> t \in selection)

\* a basis of three classes or more, one of them with several slots, from
\* selections that overlap
C7_Witness ==
    /\ pc = "done"
    /\ Cardinality(basis) >= 3
    /\ \E b \in basis : Cardinality(b) >= 2
    /\ \E s, t \in sets : s # t /\ s # params.slots /\ t # params.slots
                            /\ s \cap t # {} /\ s \ t # {} /\ t \ s # {}

\* C8: appending a move to a state never adds a solution to
\* possible_solutions(): the solutions of the longer history are among those
\* of the shorter one.
C8_SolutionsShrink ==
    [][ possible_solutions(params, moves') \subseteq possible_solutions(params, moves) ]_vars

\* a second move has removed some, not all, of the solutions left by the first
C8_Witness ==
    /\ Len(moves) = 2
    /\ possible_solutions(params, moves) # {}
    /\ possible_solutions(params, moves) # possible_solutions(params, SubSeq(moves, 1, 1))
    /\ possible_solutions(params, SubSeq(moves, 1, 1)) # all_combis[params]

\* C9: in a game of more than one group, has_winning_strat returns for every
\* state of its search what the search over all GROUP_SIZE-element selections
\* not yet played returns.
C9_ReductionSound ==
    n_groups_of(params) > 1 => verdict = full_search(params, moves, n_tries)

\* a state of the search with several classes, where the reduced search
\* returned True from its loops
C9_Witness ==
    /\ n_groups_of(params) > 1
    /\ verdict = TRUE
    /\ early_return(params, moves, n_tries) = <<>>
    /\ Cardinality(_smallest_basis(prev_selections(params, moves))) >= 3

\* C10: started on an empty history with budget >= 0, every path of the
\* recursion holds at most budget moves that are not CORRECT and at most one
\* CORRECT move per group, so no path is longer than budget + number of
\* groups: each call loops over finitely many selections and results, so the
\* recursion ends.
C10_BoundedDepth ==
    /\ n_not_correct(moves) <= budget
    /\ n_correct(moves) <= n_groups_of(params)
    /\ Len(moves) <= budget + n_groups_of(params)

\* a longest path: every group found with one try left, after budget - 1
\* moves that were not CORRECT
C10_Witness ==
    /\ budget >= 2
    /\ n_groups_of(params) >= 2
    /\ n_correct(moves) = n_groups_of(params)
    /\ n_not_correct(moves) = budget - 1

====
